---- MODULE Spec2Model ----
(***************************************************************************)
(* A model of wayline: the command parser (src/src/command.rs), the dice   *)
(* evaluator and table resolver (src/src/api.rs), the table data model     *)
(* (src/src/table.rs) and the session controller (src/src/main.rs).        *)
(*                                                                         *)
(* Strings are sequences of one-character strings, so that splitting,      *)
(* joining, lower-casing and number parsing are computed, not assumed.     *)
(* An unsigned 32-bit integer is a pair <<hi, lo>> of 16-bit limbs (value  *)
(* hi * 2^16 + lo): the model checker's own integers stop short of 2^32,   *)
(* and the overflow of u32 sums is part of what is modelled.  A pair whose *)
(* hi limb is 2^16 or more is a mathematical sum that no longer fits.      *)
(***************************************************************************)
EXTENDS Integers, Sequences, FiniteSets, TLC

VARIABLES
    scrollback,            \* Wayline.scrollback: the transcript, a sequence of lines
    input,                 \* Wayline.input: the text in the input box
    current_table,         \* Wayline.current_table: Option<String>
    tables,                \* Wayline.tables: HashMap<String, Table>
    key_order,             \* the order in which tables yields its keys
    config,                \* what the last read and parse of tables.toml gave
    current_time_minutes,  \* Wayline.current_time_minutes: u32
    panicked,              \* the process has aborted with a panic
    toks,                  \* the tokens the user typed to form the last line
    cmd,                   \* the Command the last parse_command call returned
    dice_arg,              \* the dice string of the last api::roll call
    roll_ret,              \* what the last api::roll call did
    table_arg,             \* the table of the last api::roll_on call
    roll_on_ret            \* what the last api::roll_on call did

vars == <<scrollback, input, current_table, tables, key_order, config,
          current_time_minutes, panicked, toks, cmd, dice_arg, roll_ret,
          table_arg, roll_on_ret>>

(***************************************************************************)
(* Option<T>: None is the empty sequence, Some(x) the one-element one.      *)
(***************************************************************************)
None == <<>>
Some(x) == <<x>>

(***************************************************************************)
(* u32 and its arithmetic.                                                 *)
(***************************************************************************)
U32Bits == 32
Limb == 2 ^ (U32Bits \div 2)

\* The pair for a small natural number n (n below 2^31).
W(n) == <<n \div Limb, n % Limb>>
\* u32::MAX.
U32Max == <<Limb - 1, Limb - 1>>
\* Whether a mathematical value is a u32 value.
Fits(a) == a[1] < Limb
\* The mathematical sum.
WAdd(a, b) == LET s == a[2] + b[2] IN <<a[1] + b[1] + (s \div Limb), s % Limb>>
\* The mathematical product by a small factor k.
WMul(a, k) == LET p == a[2] * k IN <<a[1] * k + (p \div Limb), p % Limb>>
\* Order.
WLe(a, b) == a[1] < b[1] \/ (a[1] = b[1] /\ a[2] <= b[2])
\* The value modulo 2^32: what a wrapping u32 operation leaves.
Wrap(a) == <<a[1] % Limb, a[2]>>
\* u32 / k and u32 % k for a small divisor k.
WDiv(a, k) == LET r == (a[1] % k) * Limb + a[2] IN WAdd(<<a[1] \div k, 0>>, <<0, r \div k>>)
WMod(a, k) == ((a[1] % k) * Limb + a[2]) % k

(***************************************************************************)
(* Characters and strings.                                                 *)
(***************************************************************************)
Upper == <<"A","B","C","D","E","F","G","H","I","J","K","L","M",
           "N","O","P","Q","R","S","T","U","V","W","X","Y","Z">>
Lower == <<"a","b","c","d","e","f","g","h","i","j","k","l","m",
           "n","o","p","q","r","s","t","u","v","w","x","y","z">>
Digits == <<"0","1","2","3","4","5","6","7","8","9">>

\* char::is_whitespace, on the characters of the model.
is_whitespace(c) == c \in {" ", "\t", "\n", "\r"}

to_lowercase_char(c) ==
    IF \E i \in 1..Len(Upper) : Upper[i] = c
    THEN Lower[CHOOSE i \in 1..Len(Upper) : Upper[i] = c]
    ELSE c

\* str::to_lowercase.
to_lowercase(s) == [i \in 1..Len(s) |-> to_lowercase_char(s[i])]

\* str::split_whitespace: the maximal runs of non-whitespace characters.
RECURSIVE split_ws_from(_, _, _)
split_ws_from(s, cur, acc) ==
    IF s = <<>> THEN (IF cur = <<>> THEN acc ELSE Append(acc, cur))
    ELSE IF is_whitespace(Head(s))
         THEN split_ws_from(Tail(s), <<>>, IF cur = <<>> THEN acc ELSE Append(acc, cur))
         ELSE split_ws_from(Tail(s), Append(cur, Head(s)), acc)
split_whitespace(s) == split_ws_from(s, <<>>, <<>>)

\* [&str]::join(sep).
RECURSIVE join(_, _)
join(parts, sep) ==
    IF parts = <<>> THEN <<>>
    ELSE IF Len(parts) = 1 THEN parts[1]
    ELSE parts[1] \o sep \o join(Tail(parts), sep)

\* str::split(c): the pieces between the occurrences of c, empty pieces kept.
RECURSIVE split_char_from(_, _, _, _)
split_char_from(s, c, cur, acc) ==
    IF s = <<>> THEN Append(acc, cur)
    ELSE IF Head(s) = c
         THEN split_char_from(Tail(s), c, <<>>, Append(acc, cur))
         ELSE split_char_from(Tail(s), c, Append(cur, Head(s)), acc)
split_char(s, c) == split_char_from(s, c, <<>>, <<>>)

(***************************************************************************)
(* str::parse::<u32>: an optional '+', then one or more decimal digits,    *)
(* the value computed with checked multiplication and addition.            *)
(***************************************************************************)
ParseErr == [ok |-> FALSE, val |-> W(0)]
ParseOk(v) == [ok |-> TRUE, val |-> v]

is_digit(c) == \E i \in 1..Len(Digits) : Digits[i] = c
digit_value(c) == (CHOOSE i \in 1..Len(Digits) : Digits[i] = c) - 1

RECURSIVE parse_digits(_, _)
parse_digits(s, acc) ==
    IF s = <<>> THEN ParseOk(acc)
    ELSE IF ~is_digit(Head(s)) THEN ParseErr
    ELSE LET m == WMul(acc, 10)
             a == WAdd(m, W(digit_value(Head(s))))
         IN  IF ~Fits(m) \/ ~Fits(a) THEN ParseErr
             ELSE parse_digits(Tail(s), a)

parse_u32(s) ==
    IF s = <<>> THEN ParseErr
    ELSE IF Len(s) = 1 /\ Head(s) \in {"+", "-"} THEN ParseErr
    ELSE IF Head(s) = "+" THEN parse_digits(Tail(s), W(0))
    ELSE parse_digits(s, W(0))

(***************************************************************************)
(* command.rs: Command and parse_command.  A Command is a tuple whose      *)
(* first element is the variant's name.                                    *)
(***************************************************************************)
RollTable(opt) == <<"RollTable", opt>>
RollDice(s) == <<"RollDice", s>>
List(opt) == <<"List", opt>>
Time == <<"Time">>
Add(n) == <<"Add", n>>
Use(s) == <<"Use", s>>
Help == <<"Help">>
Unknown(s) == <<"Unknown", s>>

S_roll == <<"r","o","l","l">>
S_list == <<"l","i","s","t">>
S_time == <<"t","i","m","e">>
S_use == <<"u","s","e">>
S_dice == <<"d","i","c","e">>
S_add == <<"a","d","d">>
S_help == <<"h","e","l","p">>

\* parts[1..].join(" ").to_lowercase()
rest_lowercase(parts) == to_lowercase(join(Tail(parts), <<" ">>))

\* parse_roll taking only the first further token as the name.
parse_roll_first_token(parts) ==
    IF Len(parts) = 1 THEN RollTable(None)
    ELSE RollTable(Some(to_lowercase(parts[2])))

parse_roll(parts) ==
    IF Len(parts) = 1 THEN RollTable(None)
    ELSE RollTable(Some(rest_lowercase(parts)))

parse_list(parts) ==
    IF Len(parts) = 1 THEN List(None)
    ELSE List(Some(rest_lowercase(parts)))

\* parse_use without the lower-casing of the name.
parse_use_keep_case(parts) ==
    Use(IF Len(parts) >= 2 THEN join(Tail(parts), <<" ">>) ELSE <<>>)

parse_use(parts) ==
    Use(IF Len(parts) >= 2 THEN rest_lowercase(parts) ELSE <<>>)

\* parse_dice lower-casing the dice string like a table name.
parse_dice_lowercase(parts, line) ==
    IF Len(parts) = 2 THEN RollDice(to_lowercase(parts[2])) ELSE Unknown(line)

parse_dice(parts, line) ==
    IF Len(parts) = 2 THEN RollDice(parts[2]) ELSE Unknown(line)

\* parse_add ignoring tokens after the number.
parse_add_extra_tokens(parts, line) ==
    IF Len(parts) >= 2 /\ parse_u32(parts[2]).ok
    THEN Add(parse_u32(parts[2]).val)
    ELSE Unknown(line)

parse_add(parts, line) ==
    IF Len(parts) = 2 /\ parse_u32(parts[2]).ok
    THEN Add(parse_u32(parts[2]).val)
    ELSE Unknown(line)

\* parse_unknown rebuilding the text from the tokens.
parse_unknown_rejoined(line) == Unknown(join(split_whitespace(line), <<" ">>))

parse_unknown(line) == Unknown(line)

\* parse_command taking 'time' and 'help' only as bare keywords.
parse_command_bare_only(line) ==
    LET parts == split_whitespace(line) IN
    IF parts = <<>> THEN parse_unknown(line)
    ELSE LET head == to_lowercase(parts[1]) IN
         CASE head = S_roll -> parse_roll(parts)
           [] head = S_list -> parse_list(parts)
           [] head = S_time /\ Len(parts) = 1 -> Time
           [] head = S_use  -> parse_use(parts)
           [] head = S_dice -> parse_dice(parts, line)
           [] head = S_add  -> parse_add(parts, line)
           [] head = S_help /\ Len(parts) = 1 -> Help
           [] OTHER -> parse_unknown(line)

parse_command(line) ==
    LET parts == split_whitespace(line) IN
    IF parts = <<>> THEN parse_unknown(line)
    ELSE LET head == to_lowercase(parts[1]) IN
         CASE head = S_roll -> parse_roll(parts)
           [] head = S_list -> parse_list(parts)
           [] head = S_time -> Time
           [] head = S_use  -> parse_use(parts)
           [] head = S_dice -> parse_dice(parts, line)
           [] head = S_add  -> parse_add(parts, line)
           [] head = S_help -> Help
           [] OTHER -> parse_unknown(line)

(***************************************************************************)
(* api.rs: roll, the dice evaluator.  The outcome of a call is a record:   *)
(* tag "Some" with the value returned, tag "None", or tag "Panic" when the *)
(* call aborts the process; draws is the sequence of values drawn from the *)
(* random source before the call ended.                                    *)
(***************************************************************************)
FullDraws == 6

RetSome(v, ds) == [tag |-> "Some", val |-> v, draws |-> ds]
RetNone == [tag |-> "None", val |-> W(0), draws |-> <<>>]
RetPanic(v, ds) == [tag |-> "Panic", val |-> v, draws |-> ds]
RetPending == [tag |-> "Pending", val |-> W(0), draws |-> <<>>]

\* The values random_range(1..=die_type) can return, die_type >= 1: all of
\* them for a die of at most FullDraws sides, the lowest and the highest
\* for a larger die.
random_range(die_type) ==
    IF die_type[1] = 0 /\ die_type[2] <= FullDraws
    THEN {W(i) : i \in 1..die_type[2]}
    ELSE {W(1), die_type}

\* total_roll += roll.  A sum that fits is the sum.  One that does not
\* panics in a build with overflow checks and wraps in a build without.
add_assign(total, r) ==
    LET s == WAdd(total, r) IN
    IF Fits(s) THEN {[panic |-> FALSE, val |-> s]}
    ELSE {[panic |-> TRUE, val |-> total], [panic |-> FALSE, val |-> Wrap(s)]}

\* for _ in 0..number_of_dice { draw; total_roll += roll }
RECURSIVE roll_loop(_, _, _, _, _)
roll_loop(number_of_dice, die_type, done, total, draws) ==
    IF done = number_of_dice THEN {RetSome(total, draws)}
    ELSE IF die_type = W(0) THEN {RetPanic(total, draws)}
    ELSE UNION { UNION { IF a.panic
                         THEN {RetPanic(total, Append(draws, r))}
                         ELSE roll_loop(number_of_dice, die_type, WAdd(done, W(1)),
                                        a.val, Append(draws, r))
                         : a \in add_assign(total, r) }
                 : r \in random_range(die_type) }

\* roll reading the first two pieces and ignoring any that follow.
roll_ignoring_extra_parts(dice) ==
    LET parts == split_char(dice, "d") IN
    IF Len(parts) < 2 THEN {RetNone}
    ELSE LET number_of_dice == parse_u32(parts[1])
             die_type == parse_u32(parts[2])
         IN  IF ~number_of_dice.ok THEN {RetNone}
             ELSE IF ~die_type.ok THEN {RetNone}
             ELSE roll_loop(number_of_dice.val, die_type.val, W(0), W(0), <<>>)

\* The set of outcomes of roll(dice).
roll(dice) ==
    LET parts == split_char(dice, "d") IN
    IF Len(parts) # 2 THEN {RetNone}
    ELSE LET number_of_dice == parse_u32(parts[1])
             die_type == parse_u32(parts[2])
         IN  IF ~number_of_dice.ok THEN {RetNone}
             ELSE IF ~die_type.ok THEN {RetNone}
             ELSE roll_loop(number_of_dice.val, die_type.val, W(0), W(0), <<>>)

(***************************************************************************)
(* table.rs: Table and Entry.  api.rs: roll_on, the resolver.  The entry   *)
(* reference it returns is the index of the row.                           *)
(***************************************************************************)
Entry(name, numbers) == [name |-> name, numbers |-> numbers]
Table(name, rows, dice) == [name |-> name, rows |-> rows, roll |-> dice]

\* Vec::contains.
contains(numbers, n) == \E i \in 1..Len(numbers) : numbers[i] = n

\* scan_rows keeping the last matching row instead of returning at the first.
RECURSIVE scan_rows_last_match(_, _, _)
scan_rows_last_match(rows, total_roll, i) ==
    IF i > Len(rows) THEN None
    ELSE LET later == scan_rows_last_match(rows, total_roll, i + 1) IN
         IF later # None THEN later
         ELSE IF contains(rows[i].numbers, total_roll) THEN Some(i)
         ELSE None

\* for entry in &table.rows { if entry.numbers.contains(&total_roll) { return } }
RECURSIVE scan_rows(_, _, _)
scan_rows(rows, total_roll, i) ==
    IF i > Len(rows) THEN None
    ELSE IF contains(rows[i].numbers, total_roll) THEN Some(i)
    ELSE scan_rows(rows, total_roll, i + 1)

\* roll(dice).unwrap_or(0)
unwrap_or_0(o) == IF o.tag = "Some" THEN o.val ELSE W(0)

OnPending == [tag |-> "Pending", roll |-> W(0), entry |-> None, eval |-> RetPending]

\* roll_on giving up on a failed roll instead of scanning against 0.
roll_on_skip_failed(table, dice) ==
    { IF o.tag = "Panic"
      THEN [tag |-> "Panic", roll |-> W(0), entry |-> None, eval |-> o]
      ELSE IF o.tag = "None"
      THEN [tag |-> "Ret", roll |-> W(0), entry |-> None, eval |-> o]
      ELSE [tag |-> "Ret", roll |-> unwrap_or_0(o),
            entry |-> scan_rows(table.rows, unwrap_or_0(o), 1), eval |-> o]
      : o \in roll(dice) }

\* The set of outcomes of roll_on(table, dice).
roll_on(table, dice) ==
    { IF o.tag = "Panic"
      THEN [tag |-> "Panic", roll |-> W(0), entry |-> None, eval |-> o]
      ELSE [tag |-> "Ret", roll |-> unwrap_or_0(o),
            entry |-> scan_rows(table.rows, unwrap_or_0(o), 1), eval |-> o]
      : o \in roll(dice) }

(***************************************************************************)
(* The state before any call: no session activity, no call made yet.       *)
(***************************************************************************)
NoCmd == <<"NoCmd">>
EmptyMap == [k \in {} |-> 0]
NoRead == [found |-> FALSE, ok |-> FALSE, tables |-> <<>>, read |-> FALSE]
NoTable == Table(<<>>, <<>>, <<>>)

\* Wayline::default(), the session as constructed.
IdleSession ==
    /\ scrollback = <<>>
    /\ current_table = None
    /\ tables = EmptyMap
    /\ key_order = <<>>
    /\ config = NoRead
    /\ current_time_minutes = W(0)
    /\ panicked = FALSE

\* No roll or roll_on call made yet.
IdleDice ==
    /\ dice_arg = <<>>
    /\ roll_ret = RetPending
    /\ table_arg = NoTable
    /\ roll_on_ret = OnPending

(***************************************************************************)
(* The lines a user can type: a list of tokens, whitespace before, between *)
(* and after them.                                                         *)
(***************************************************************************)
MaxArgs == 2
MaxSep == 2

KeywordToks ==
    { S_roll, <<"R","O","L","L">>, S_list, <<"L","i","s","t">>,
      S_use, <<"U","s","e">>, S_dice, <<"D","I","C","E">>,
      S_add, <<"A","d","d">>, S_time, <<"T","i","m","e">>,
      S_help, <<"H","E","L","P">>, <<"f","o","o">> }

ArgToks ==
    { <<"W","i","l","d">>, <<"c","a","v","e","s">>, <<"2","D","6">>,
      <<"1","5">>, <<"+","5">>, <<"-","1">>,
      <<"4","2","9","4","9","6","7","2","9","5">>,
      <<"4","2","9","4","9","6","7","2","9","6">> }

ArgLists == UNION { [1..n -> ArgToks] : n \in 0..MaxArgs }
TokLists == {<<>>} \cup { <<k>> \o a : k \in KeywordToks, a \in ArgLists }

Spaces(n) == [i \in 1..n |-> " "]
Pads == { <<>>, <<" ">> }
Seps == { Spaces(n) : n \in 1..MaxSep } \cup { <<"\t">> }

Render(lead, ts, sep, trail) == lead \o join(ts, sep) \o trail

(***************************************************************************)
(* SpecParse: parse_command applied to every line.                         *)
(***************************************************************************)
InitParse ==
    /\ IdleSession
    /\ IdleDice
    /\ cmd = NoCmd
    /\ \E ts \in TokLists, lead \in Pads, sep \in Seps, trail \in Pads :
         /\ toks = ts
         /\ input = Render(lead, ts, sep, trail)

CallParse ==
    /\ cmd = NoCmd
    /\ cmd' = parse_command(input)
    /\ UNCHANGED <<scrollback, input, current_table, tables, key_order, config,
                   current_time_minutes, panicked, toks, dice_arg, roll_ret,
                   table_arg, roll_on_ret>>

SpecParse == InitParse /\ [][CallParse]_vars

(***************************************************************************)
(* SpecDice: roll applied to every dice string.                            *)
(***************************************************************************)
MaxDice == 3

S_max == <<"4","2","9","4","9","6","7","2","9","5">>
S_over == <<"4","2","9","4","9","6","7","2","9","6">>

CountParts ==
    { <<Digits[n + 1]>> : n \in 0..MaxDice }
    \cup { <<>>, <<"+","2">>, <<"-","1">>, <<"x">>, <<" ","2">>, <<"0","2">>, S_over }

SidesParts ==
    { <<>>, <<"0">>, <<"1">>, <<"2">>, <<"6">>, <<"7">>, <<"+","6">>, <<"x">>,
      <<"6"," ">>, <<"6","5","5","3","6">>, S_max, S_over }

DiceStrings ==
    { c \o <<"d">> \o m : c \in CountParts, m \in SidesParts }
    \cup CountParts
    \cup { c \o <<"D">> \o m : c \in {<<"2">>}, m \in {<<"6">>} }
    \cup { c \o <<"d">> \o m \o <<"d">> \o m : c \in {<<"1">>, <<"2">>}, m \in SidesParts }

InitDice ==
    /\ IdleSession
    /\ input = <<>>
    /\ toks = <<>>
    /\ cmd = NoCmd
    /\ dice_arg \in DiceStrings
    /\ roll_ret = RetPending
    /\ table_arg = NoTable
    /\ roll_on_ret = OnPending

CallRoll ==
    /\ roll_ret.tag = "Pending"
    /\ roll_ret' \in roll(dice_arg)
    /\ UNCHANGED <<scrollback, input, current_table, tables, key_order, config,
                   current_time_minutes, panicked, toks, cmd, dice_arg, table_arg,
                   roll_on_ret>>

SpecDice == InitDice /\ [][CallRoll]_vars

(***************************************************************************)
(* SpecResolve: roll_on applied to every table and dice string.            *)
(***************************************************************************)
MaxRows == 3

NumberLists ==
    { <<>>, <<W(0)>>, <<W(1)>>, <<W(2), W(3)>>, <<W(3), W(4)>>, <<W(4), W(0)>>,
      <<W(2), W(2)>> }

\* The tables of n rows; row i is named by the i-th letter.
RowLists(n) ==
    { [i \in 1..n |-> Entry(<<Upper[i]>>, f[i])] : f \in [1..n -> NumberLists] }

ResolveTables ==
    { Table(<<"T">>, rows, <<>>) : rows \in UNION { RowLists(n) : n \in 0..MaxRows } }

ResolveDice ==
    { <<"1","d","4">>, <<"2","d","2">>, <<"0","d","6">>, <<"+","1","d","3">>,
      <<"x">>, <<>>, <<"1","d">>, <<"1","d","0">>, <<"2","d">> \o S_max }

InitResolve ==
    /\ IdleSession
    /\ input = <<>>
    /\ toks = <<>>
    /\ cmd = NoCmd
    /\ dice_arg \in ResolveDice
    /\ roll_ret = RetPending
    /\ table_arg \in ResolveTables
    /\ roll_on_ret = OnPending

CallRollOn ==
    /\ roll_on_ret.tag = "Pending"
    /\ roll_on_ret' \in roll_on(table_arg, dice_arg)
    /\ roll_ret' = roll_on_ret'.eval
    /\ UNCHANGED <<scrollback, input, current_table, tables, key_order, config,
                   current_time_minutes, panicked, toks, cmd, dice_arg, table_arg>>

SpecResolve == InitResolve /\ [][CallRollOn]_vars

(***************************************************************************)
(* main.rs: the session controller.  A handler is an operator from the     *)
(* session as it stands when the handler starts (a record o: the           *)
(* transcript sb, the selection cur, the clock time, whether the process   *)
(* has panicked, and the roll and roll_on calls made) to the set of        *)
(* sessions it can leave.  tables is read from the state: no handler of a  *)
(* command writes it.  A transcript line is its format string and the      *)
(* values formatted into it.                                               *)
(***************************************************************************)
Started(sb) ==
    [sb |-> sb, cur |-> current_table, time |-> current_time_minutes,
     panic |-> FALSE, roll |-> RetPending, darg |-> <<>>,
     targ |-> NoTable, on |-> OnPending]

\* format!(fmt, args...), and a literal line.
Line(fmt, args) == [fmt |-> fmt, args |-> args]
Text(str) == Line(str, <<>>)

\* Wayline::update_scrollback: push the line (content is the lines joined).
update_scrollback(o, new_line) == [o EXCEPT !.sb = Append(@, new_line)]

RECURSIVE update_scrollback_all(_, _)
update_scrollback_all(o, lines) ==
    IF lines = <<>> THEN o
    ELSE update_scrollback_all(update_scrollback(o, Head(lines)), Tail(lines))

\* HashMap::get.
get(map, key) == IF key \in DOMAIN map THEN Some(map[key]) ELSE None

\* HashMap::insert.
insert(map, key, value) ==
    [k \in DOMAIN map \cup {key} |-> IF k = key THEN value ELSE map[k]]

\* Wayline::table: the selected table, if the selection names one.
table(cur) == IF cur # None THEN get(tables, cur[1]) ELSE None

\* HashMap::keys.  The map yields its keys in the order of its buckets: an
\* order that stays as it is while no key is added.  A new key lands in any
\* place among the others; when the map has to grow for it (at 3, 7, 14 and
\* 28 keys) every key is placed anew.
orders_of(keys) ==
    { f \in [1..Cardinality(keys) -> keys] :
        \A i, j \in 1..Cardinality(keys) : f[i] = f[j] => i = j }

order_after_insert(order, key) ==
    IF \E i \in 1..Len(order) : order[i] = key THEN {order}
    ELSE IF Len(order) \in {3, 7, 14, 28}
    THEN orders_of({order[i] : i \in 1..Len(order)} \cup {key})
    ELSE { SubSeq(order, 1, p) \o <<key>> \o SubSeq(order, p + 1, Len(order))
           : p \in 0..Len(order) }

\* on_list_command without the line of the dice expression.
on_list_command_no_dice(o) ==
    IF DOMAIN tables = {} THEN {update_scrollback(o, Text("No tables loaded."))}
    ELSE IF table(o.cur) # None
    THEN LET t == table(o.cur)[1] IN
         { update_scrollback_all(o,
              << Line("Table: {}", <<t.name>>) >>
              \o [i \in 1..Len(t.rows) |->
                    Line("- {}: {:?}", <<t.rows[i].name, t.rows[i].numbers>>)]) }
    ELSE { update_scrollback_all(update_scrollback(o, Text("Loaded tables:")),
              [i \in 1..Len(key_order) |-> Line("- {}", <<key_order[i]>>)]) }

\* Wayline::on_list_command.
on_list_command(o) ==
    IF DOMAIN tables = {} THEN {update_scrollback(o, Text("No tables loaded."))}
    ELSE IF table(o.cur) # None
    THEN LET t == table(o.cur)[1] IN
         { update_scrollback_all(o,
              << Line("Table: {}", <<t.name>>), Line("Dice: {}", <<t.roll>>) >>
              \o [i \in 1..Len(t.rows) |->
                    Line("- {}: {:?}", <<t.rows[i].name, t.rows[i].numbers>>)]) }
    ELSE { update_scrollback_all(update_scrollback(o, Text("Loaded tables:")),
              [i \in 1..Len(key_order) |-> Line("- {}", <<key_order[i]>>)]) }

\* Wayline::on_time_command.
on_time_command(o) ==
    { update_scrollback(o, Line("Current in-game time: {:02}:{:02}",
                                <<WDiv(o.time, 60), WMod(o.time, 60)>>)) }

\* Wayline::add_minutes.
add_minutes(o, minutes) ==
    { IF a.panic THEN [o EXCEPT !.panic = TRUE]
      ELSE update_scrollback([o EXCEPT !.time = a.val],
              Line("Added {} minutes. New time: {:02}:{:02}",
                   <<minutes, WDiv(a.val, 60), WMod(a.val, 60)>>))
      : a \in add_assign(o.time, minutes) }

\* The RollDice arm with the result of roll taken as unwrap_or(0).
on_dice_command_unwrap_or_0(o, dice_str) ==
    { LET called == [o EXCEPT !.roll = r, !.darg = dice_str] IN
      IF r.tag = "Panic" THEN [called EXCEPT !.panic = TRUE]
      ELSE update_scrollback(called,
              Line("Rolled {}: {}", <<dice_str, unwrap_or_0(r)>>))
      : r \in roll(dice_str) }

\* The RollDice arm of on_enter_pressed.
on_dice_command(o, dice_str) ==
    { LET called == [o EXCEPT !.roll = r, !.darg = dice_str] IN
      IF r.tag = "Panic" THEN [called EXCEPT !.panic = TRUE]
      ELSE IF r.tag = "Some"
      THEN update_scrollback(called, Line("Rolled {}: {}", <<dice_str, r.val>>))
      ELSE update_scrollback(called, Line("Invalid dice notation: {}", <<dice_str>>))
      : r \in roll(dice_str) }

\* on_roll_command rolling on the selected table when the named one is missing.
on_roll_command_fall_back(o, target) ==
    LET named == IF target # None THEN get(tables, target[1]) ELSE None
        maybe_table == IF named # None THEN named ELSE table(o.cur)
    IN
    IF maybe_table = None
    THEN IF target # None
         THEN {update_scrollback(o, Line("Table '{}' not found.", <<target[1]>>))}
         ELSE {update_scrollback(o, Text("No table selected."))}
    ELSE LET t == maybe_table[1]
             table_name == to_lowercase(t.name)
             dice == t.roll
         IN  { LET called == [o EXCEPT !.roll = r.eval, !.darg = dice,
                                       !.targ = t, !.on = r] IN
               IF r.tag = "Panic" THEN [called EXCEPT !.panic = TRUE]
               ELSE IF r.entry # None
               THEN update_scrollback(called,
                       Line("{} -> ({}): rolled: {}",
                            <<table_name, r.roll, t.rows[r.entry[1]].name>>))
               ELSE update_scrollback(called,
                       Line("{} -> ({}): no matching entry found.",
                            <<table_name, r.roll>>))
               : r \in roll_on(t, dice) }

\* Wayline::on_roll_command.
on_roll_command(o, target) ==
    LET maybe_table == IF target # None THEN get(tables, target[1]) ELSE table(o.cur) IN
    IF maybe_table = None
    THEN IF target # None
         THEN {update_scrollback(o, Line("Table '{}' not found.", <<target[1]>>))}
         ELSE {update_scrollback(o, Text("No table selected."))}
    ELSE LET t == maybe_table[1]
             table_name == to_lowercase(t.name)
             dice == t.roll
         IN  { LET called == [o EXCEPT !.roll = r.eval, !.darg = dice,
                                       !.targ = t, !.on = r] IN
               IF r.tag = "Panic" THEN [called EXCEPT !.panic = TRUE]
               ELSE IF r.entry # None
               THEN update_scrollback(called,
                       Line("{} -> ({}): rolled: {}",
                            <<table_name, r.roll, t.rows[r.entry[1]].name>>))
               ELSE update_scrollback(called,
                       Line("{} -> ({}): no matching entry found.",
                            <<table_name, r.roll>>))
               : r \in roll_on(t, dice) }

\* The Help arm of on_enter_pressed.
on_help_command(o) ==
    { update_scrollback_all(o,
        << Text("Available commands:"),
           Text("- roll : Roll on the loaded table"),
           Text("- dice <notation> : Roll custom dice (e.g., '2d6')"),
           Text("- list : List the loaded table entries"),
           Text("- time : Show current in-game time"),
           Text("- add <minutes> : Add minutes to in-game time"),
           Text("- help : Show this help message") >>) }

\* The Use arm selecting the name without looking it up.
on_use_command_unchecked(o, table_name) ==
    {update_scrollback([o EXCEPT !.cur = Some(table_name)],
        Line("Switched to table '{}'.", <<table_name>>))}

\* The Use arm of on_enter_pressed.
on_use_command(o, table_name) ==
    IF table_name \in DOMAIN tables
    THEN {update_scrollback([o EXCEPT !.cur = Some(table_name)],
             Line("Switched to table '{}'.", <<table_name>>))}
    ELSE {update_scrollback(o, Line("Table '{}' not found.", <<table_name>>))}

\* The match of on_enter_pressed.
dispatch(o, c) ==
    CASE c[1] = "RollTable" -> on_roll_command(o, c[2])
      [] c[1] = "RollDice" -> on_dice_command(o, c[2])
      [] c[1] = "List" -> on_list_command(o)
      [] c[1] = "Time" -> on_time_command(o)
      [] c[1] = "Add" -> add_minutes(o, c[2])
      [] c[1] = "Help" -> on_help_command(o)
      [] c[1] = "Unknown" -> {update_scrollback(o, Line("Unknown command: {}", <<c[2]>>))}
      [] c[1] = "Use" -> on_use_command(o, c[2])

\* Wayline::on_enter_pressed: the set of sessions a dispatch of line can leave.
on_enter_pressed(line) ==
    dispatch(update_scrollback(Started(scrollback), Line("> {}", <<line>>)),
             parse_command(line))

\* load_all keeping the table a key already has.
RECURSIVE insert_all_keep_first(_, _)
insert_all_keep_first(map, loaded) ==
    IF loaded = <<>> THEN map
    ELSE insert_all_keep_first(
            IF to_lowercase(Head(loaded).name) \in DOMAIN map THEN map
            ELSE insert(map, to_lowercase(Head(loaded).name), Head(loaded)),
            Tail(loaded))

\* Wayline::load_all on the result of api::parse_tables.
RECURSIVE insert_all(_, _)
insert_all(map, loaded) ==
    IF loaded = <<>> THEN map
    ELSE insert_all(insert(map, to_lowercase(Head(loaded).name), Head(loaded)),
                    Tail(loaded))
load_all(map, parsed) == IF parsed.ok THEN insert_all(map, parsed.tables) ELSE map

\* The key orders the map can have after load_all.
RECURSIVE order_after_all(_, _)
order_after_all(order, loaded) ==
    IF loaded = <<>> THEN {order}
    ELSE UNION { order_after_all(next, Tail(loaded))
                 : next \in order_after_insert(order, to_lowercase(Head(loaded).name)) }
order_after_load(order, parsed) ==
    IF parsed.ok THEN order_after_all(order, parsed.tables) ELSE {order}

(***************************************************************************)
(* Spec: the session.  The environment supplies the lines typed and what   *)
(* reading and parsing tables.toml gives.                                  *)
(***************************************************************************)
MaxScrollback == 6
MaxCommands == 2

S_wild == <<"W","i","l","d">>
S_caves == <<"C","a","v","e","s">>
S_inn == <<"I","n","n">>
S_none == <<"n","o","n","e">>

T_WildCaves ==
    Table(S_wild \o <<" ">> \o S_caves,
          << Entry(<<"A">>, <<W(1), W(2)>>), Entry(<<"B">>, <<W(2), W(3)>>) >>,
          <<"1","d","3">>)
T_Inn == Table(S_inn, << Entry(<<"C">>, <<W(0)>>) >>, <<"x">>)
T_INN == Table(<<"I","N","N">>, << Entry(<<"D">>, <<W(3), W(4)>>) >>, <<"2","d","2">>)
T_Pit == Table(<<"D","e","e","p"," "," ","P","i","t">>, <<>>, <<"1","d","0">>)

\* What read_config and parse_tables can give: no file, a file that does
\* not parse, or a file that parses to a list of tables.
NoFile == [found |-> FALSE, ok |-> FALSE, tables |-> <<>>, read |-> TRUE]
BadFile == [found |-> TRUE, ok |-> FALSE, tables |-> <<>>, read |-> TRUE]
GoodFile(ts) == [found |-> TRUE, ok |-> TRUE, tables |-> ts, read |-> TRUE]
ConfigReads ==
    { NoFile, BadFile, GoodFile(<<T_WildCaves, T_Inn>>),
      GoodFile(<<T_Inn, T_INN>>), GoodFile(<<T_Pit>>) }

SessionToks ==
    { <<>>, <<S_roll>>, << <<"R","o","l","l">>, S_wild, S_caves >>, <<S_roll, S_none>>,
      <<S_list>>, <<S_time>>,
      <<S_add, <<"1","5">>>>, <<S_add, S_max>>,
      <<S_use>>, << <<"U","s","e">>, S_inn >>, <<S_use, S_none>>,
      <<S_dice, <<"1","d","2">>>>, <<S_dice, <<"1","d","0">>>>, <<S_dice, <<"x">>>>,
      <<S_dice, <<"2","d">> \o S_max>>,
      <<S_help>>, << <<"f","o","o">>, <<"B","a","r">> >> }

\* The line typed for a list of tokens: single spaces between them, and
\* whitespace around and doubled between them when the first token is not
\* all lower-case or there is none.
SessionLine(ts) ==
    IF ts = <<>> \/ ts[1] # to_lowercase(ts[1])
    THEN Render(<<" ">>, ts, <<" ", " ">>, <<" ">>)
    ELSE Render(<<>>, ts, <<" ">>, <<>>)

\* The number of lines dispatched so far: each one is echoed.
Commands(sb) == Cardinality({ i \in 1..Len(sb) : sb[i].fmt = "> {}" })

Init ==
    /\ IdleSession
    /\ IdleDice
    /\ input = <<>>
    /\ toks = <<>>
    /\ cmd = NoCmd

\* Message::ContentChanged(new_input).
ContentChanged ==
    /\ ~panicked
    /\ Len(scrollback) < MaxScrollback
    /\ Commands(scrollback) < MaxCommands
    /\ \E ts \in SessionToks :
         /\ toks' = ts
         /\ input' = SessionLine(ts)
    /\ UNCHANGED <<scrollback, current_table, tables, key_order, config,
                   current_time_minutes, panicked, cmd, dice_arg, roll_ret,
                   table_arg, roll_on_ret>>

\* Message::EnterPressed.
EnterPressed ==
    /\ ~panicked
    /\ Len(scrollback) < MaxScrollback
    /\ Commands(scrollback) < MaxCommands
    /\ cmd' = parse_command(input)
    /\ \E o \in on_enter_pressed(input) :
         /\ scrollback' = o.sb
         /\ current_table' = o.cur
         /\ current_time_minutes' = o.time
         /\ panicked' = o.panic
         /\ input' = (IF o.panic THEN input ELSE <<>>)
         /\ dice_arg' = o.darg
         /\ roll_ret' = o.roll
         /\ table_arg' = o.targ
         /\ roll_on_ret' = o.on
    /\ UNCHANGED <<tables, key_order, config, toks>>

\* Message::WindowOpened, tables.toml giving one of reads.
WindowOpenedOn(reads) ==
    /\ ~panicked
    /\ Len(scrollback) < MaxScrollback
    /\ \E read \in reads :
         LET opened == Append(scrollback, Text("Wayline window opened.")) IN
         /\ config' = read
         /\ IF ~read.found
            THEN /\ scrollback' = Append(opened, Text("No tables.toml found."))
                 /\ UNCHANGED <<tables, key_order, current_table>>
            ELSE \E order \in order_after_load(key_order, read) :
                   LET listed == Append(opened,
                           Line("Loaded tables from tables.toml: {:?}.", <<order>>))
                   IN  /\ tables' = load_all(tables, read)
                       /\ key_order' = order
                       /\ IF order = <<>>
                          THEN /\ scrollback' = listed
                               /\ UNCHANGED current_table
                          ELSE LET first_table_name == order[1] IN
                               /\ current_table' = Some(first_table_name)
                               /\ scrollback' = Append(listed,
                                    Line("Current table set to '{}'.",
                                         <<first_table_name>>))
    /\ UNCHANGED <<input, current_time_minutes, panicked, toks, cmd,
                   dice_arg, roll_ret, table_arg, roll_on_ret>>

WindowOpened == WindowOpenedOn(ConfigReads)

\* Message::Noop, Message::WindowClosed: ignored.
Ignored ==
    /\ ~panicked
    /\ UNCHANGED vars

Next == ContentChanged \/ EnterPressed \/ WindowOpened \/ Ignored

Spec == Init /\ [][Next]_vars

(***************************************************************************)
(* SpecReach: the session in which the user types 'use <name>' and         *)
(* 'roll <name>' with the names of the loaded tables, in any letter case.  *)
(***************************************************************************)
to_uppercase(s) ==
    [i \in 1..Len(s) |->
        IF \E j \in 1..26 : Lower[j] = s[i]
        THEN Upper[CHOOSE j \in 1..26 : Lower[j] = s[i]]
        ELSE s[i]]
LetterCases(s) == {s, to_lowercase(s), to_uppercase(s)}

T_Ford == Table(<<" ","F","o","r","d"," ">>, << Entry(<<"E">>, <<W(1)>>) >>, <<"1","d","1">>)
NamedReads == ConfigReads \cup { GoodFile(<<T_Ford>>) }

\* Message::ContentChanged with the line '<keyword> <name>', name being the
\* name of a loaded table; toks holds the keyword and the name as typed.
NameTyped ==
    /\ ~panicked
    /\ Len(scrollback) < MaxScrollback
    /\ Commands(scrollback) < MaxCommands
    /\ \E k \in DOMAIN tables, keyword \in {S_use, S_roll} :
         \E line \in LetterCases(keyword \o <<" ">> \o tables[k].name) :
            /\ input' = line
            /\ toks' = << SubSeq(line, 1, Len(keyword)),
                          SubSeq(line, Len(keyword) + 2, Len(line)) >>
    /\ UNCHANGED <<scrollback, current_table, tables, key_order, config,
                   current_time_minutes, panicked, cmd, dice_arg, roll_ret,
                   table_arg, roll_on_ret>>

NamesLoaded == WindowOpenedOn(NamedReads)

NextReach == NamesLoaded \/ NameTyped \/ EnterPressed

SpecReach == Init /\ [][NextReach]_vars

(***************************************************************************)
(* Properties of the dispatch.                                             *)
(***************************************************************************)
\* A step that dispatches a line: it appends the echo of the line.
Dispatching ==
    /\ Len(scrollback') > Len(scrollback)
    /\ scrollback'[Len(scrollback) + 1].fmt = "> {}"

\* C1: every dispatch of a line runs to completion: it does not panic, it
\* appends at least one output line after the echo, and it leaves the input
\* cleared for the next line.
C1_DispatchCompletes ==
    [][Dispatching =>
         /\ ~panicked'
         /\ Len(scrollback') >= Len(scrollback) + 2
         /\ input' = <<>>]_vars

(***************************************************************************)
(* Properties of parse_command, stated over the tokens the user typed.     *)
(***************************************************************************)
\* The tokens joined by single spaces, built from the right.
RECURSIVE RefJoin(_)
RefJoin(ts) ==
    IF ts = <<>> THEN <<>>
    ELSE IF Len(ts) = 1 THEN ts[1]
    ELSE RefJoin(SubSeq(ts, 1, Len(ts) - 1)) \o <<" ">> \o ts[Len(ts)]

\* A string with its upper-case letters replaced by the lower-case ones.
RefLower(s) ==
    [i \in 1..Len(s) |->
        IF \E j \in 1..26 : Upper[j] = s[i]
        THEN Lower[CHOOSE j \in 1..26 : Upper[j] = s[i]]
        ELSE s[i]]

\* The further tokens as one lower-cased name.
RefName(ts) == RefLower(RefJoin(Tail(ts)))

\* A string without its leading and trailing whitespace.
RECURSIVE TrimStart(_)
TrimStart(s) ==
    IF s # <<>> /\ Head(s) \in {" ", "\t", "\n", "\r"} THEN TrimStart(Tail(s)) ELSE s
RECURSIVE TrimEnd(_)
TrimEnd(s) ==
    IF s # <<>> /\ s[Len(s)] \in {" ", "\t", "\n", "\r"}
    THEN TrimEnd(SubSeq(s, 1, Len(s) - 1)) ELSE s
Trim(s) == TrimEnd(TrimStart(s))

\* The decimal value of a string of digits, as a mathematical integer.
RECURSIVE RefValue(_)
RefValue(s) ==
    IF s = <<>> THEN W(0)
    ELSE WAdd(WMul(RefValue(SubSeq(s, 1, Len(s) - 1)), 10),
              W((CHOOSE i \in 1..10 : Digits[i] = s[Len(s)]) - 1))

\* The digits of a numeral that may carry one leading '+'.
Unsigned(s) == IF s # <<>> /\ s[1] = "+" THEN Tail(s) ELSE s
AllDigits(s) == s # <<>> /\ \A i \in 1..Len(s) : \E j \in 1..10 : Digits[j] = s[i]
\* The token denotes a non-negative integer in the u32 range.
IsNonNegU32(s) == AllDigits(Unsigned(s)) /\ WLe(RefValue(Unsigned(s)), U32Max)

Parsed == cmd # NoCmd
FirstIs(kw) == toks # <<>> /\ RefLower(toks[1]) = kw
VariantNames ==
    {"RollTable", "RollDice", "List", "Time", "Add", "Use", "Help", "Unknown"}

\* C2 as stated: a line whose first token is 'use' parses to Unknown when no
\* further token follows, and to Use(name) otherwise, name being the further
\* tokens joined by single spaces and lower-cased.
C2_UseBareIsUnknown ==
    (Parsed /\ FirstIs(S_use)) =>
        IF Len(toks) = 1 THEN cmd[1] = "Unknown"
        ELSE cmd[1] = "Use" /\ cmd[2] = RefName(toks)

\* C2 amended: a line whose first token is 'use' always parses to Use(name);
\* name is the empty string when no further token follows, and otherwise the
\* further tokens joined by single spaces and lower-cased.
C2_UseBareIsUseEmpty ==
    (Parsed /\ FirstIs(S_use)) =>
        /\ cmd[1] = "Use"
        /\ cmd[2] = (IF Len(toks) = 1 THEN <<>> ELSE RefName(toks))

C2_Witness ==
    /\ Parsed /\ FirstIs(S_use) /\ toks[1] # S_use
    /\ Len(toks) = 1 /\ input # toks[1]
    /\ cmd = Use(<<>>)

\* C3 as stated: parse_command returns a Command for every line, and the text
\* of an Unknown is the line with leading and trailing whitespace trimmed.
C3_UnknownIsTrimmed ==
    Parsed =>
        /\ cmd[1] \in VariantNames
        /\ (toks = <<>> \/ FirstIs(<<"f","o","o">>)) => cmd[1] = "Unknown"
        /\ cmd[1] = "Unknown" => cmd[2] = Trim(input)

\* C3 amended: parse_command returns a Command for every line, and the text
\* of an Unknown is the line exactly as given, whitespace included.
C3_UnknownIsVerbatim ==
    Parsed =>
        /\ cmd[1] \in VariantNames
        /\ (toks = <<>> \/ FirstIs(<<"f","o","o">>)) => cmd[1] = "Unknown"
        /\ cmd[1] = "Unknown" => cmd[2] = input

C3_Witness ==
    /\ Parsed /\ FirstIs(S_dice) /\ Len(toks) = 3
    /\ input # Trim(input)
    /\ cmd = Unknown(input)

\* C4: a line whose first token is 'dice' parses to RollDice(t) exactly when
\* exactly one further token t follows, t unmodified; otherwise to Unknown.
C4_DiceOneToken ==
    (Parsed /\ FirstIs(S_dice)) =>
        IF Len(toks) = 2 THEN cmd[1] = "RollDice" /\ cmd[2] = toks[2]
        ELSE cmd[1] = "Unknown"

C4_Witness ==
    /\ Parsed /\ FirstIs(S_dice) /\ toks[1] # S_dice
    /\ Len(toks) = 2 /\ toks[2] # RefLower(toks[2])
    /\ cmd = RollDice(toks[2])

\* C5: a line whose first token is 'add' parses to Add(n) exactly when exactly
\* one further token follows and it denotes a non-negative integer n in the
\* unsigned 32-bit range; in every other case it parses to Unknown.
C5_AddOneNumber ==
    (Parsed /\ FirstIs(S_add)) =>
        IF Len(toks) = 2 /\ IsNonNegU32(toks[2])
        THEN cmd[1] = "Add" /\ cmd[2] = RefValue(Unsigned(toks[2]))
        ELSE cmd[1] = "Unknown"

C5_Witness ==
    /\ Parsed /\ FirstIs(S_add) /\ Len(toks) = 2
    /\ cmd = Add(U32Max)

\* C6: a line whose first token is 'roll' (resp. 'list') parses to
\* RollTable(None) (resp. List(None)) when no further token follows, and
\* otherwise to RollTable(Some(s)) (resp. List(Some(s))), s being the further
\* tokens joined by single spaces and lower-cased, whatever the whitespace.
C6_RollListOptionalName ==
    /\ (Parsed /\ FirstIs(S_roll)) =>
          /\ cmd[1] = "RollTable"
          /\ cmd[2] = (IF Len(toks) = 1 THEN None ELSE Some(RefName(toks)))
    /\ (Parsed /\ FirstIs(S_list)) =>
          /\ cmd[1] = "List"
          /\ cmd[2] = (IF Len(toks) = 1 THEN None ELSE Some(RefName(toks)))

C6_Witness ==
    /\ Parsed /\ FirstIs(S_list) /\ toks[1] # S_list
    /\ Len(toks) = 3 /\ toks[2] # RefLower(toks[2])
    /\ input # RefJoin(toks)
    /\ cmd = List(Some(RefName(toks)))

(***************************************************************************)
(* Properties of roll, stated over the text of the dice string.            *)
(***************************************************************************)
Rolled == roll_ret.tag # "Pending"

\* The positions at which the dice string splits into a count and a sides
\* part that are both strings of digits (at most one position).
DigitSplits ==
    { i \in 1..Len(dice_arg) :
        /\ dice_arg[i] = "d"
        /\ AllDigits(SubSeq(dice_arg, 1, i - 1))
        /\ AllDigits(SubSeq(dice_arg, i + 1, Len(dice_arg))) }

\* The same, when each part may carry one leading '+'.
SignedSplits ==
    { i \in 1..Len(dice_arg) :
        /\ dice_arg[i] = "d"
        /\ AllDigits(Unsigned(SubSeq(dice_arg, 1, i - 1)))
        /\ AllDigits(Unsigned(SubSeq(dice_arg, i + 1, Len(dice_arg)))) }

CountOf(i) == RefValue(SubSeq(dice_arg, 1, i - 1))
SidesOf(i) == RefValue(SubSeq(dice_arg, i + 1, Len(dice_arg)))

\* C7: for a dice string '<n>d<m>' with n >= 0 and m >= 1 (both taken within
\* the unsigned 32-bit range), every outcome of roll is a success with a
\* value v, n <= v <= n*m; when n = 0, v = 0 and no draw is made.
C7_RollWithinRange ==
    \A i \in DigitSplits :
        (/\ Rolled
         /\ WLe(CountOf(i), U32Max) /\ WLe(SidesOf(i), U32Max)
         /\ WLe(W(1), SidesOf(i))) =>
            /\ roll_ret.tag = "Some"
            /\ WLe(CountOf(i), roll_ret.val)
            /\ WLe(roll_ret.val, WMul(SidesOf(i), CountOf(i)[2]))
            /\ CountOf(i) = W(0) => (roll_ret.val = W(0) /\ roll_ret.draws = <<>>)

\* C8 as stated: for a dice string that is not a string of digits, one 'd'
\* and a string of digits, roll returns no value and makes no draw.
C8_MalformedFails ==
    (Rolled /\ DigitSplits = {}) => roll_ret = RetNone

\* C8 amended: for a dice string that is not a count, one 'd' and a number of
\* sides, each of them a string of digits that may carry one leading '+',
\* roll returns no value and makes no draw.
C8_MalformedFailsSigned ==
    (Rolled /\ SignedSplits = {}) => roll_ret = RetNone

C8_Witness ==
    /\ Rolled /\ SignedSplits = {}
    /\ Cardinality({ i \in 1..Len(dice_arg) : dice_arg[i] = "d" }) = 2
    /\ roll_ret = RetNone

(***************************************************************************)
(* Properties of roll_on.                                                  *)
(***************************************************************************)
Resolved == roll_on_ret.tag # "Pending"

\* The rows of the table whose numbers contain r.
Matching(r) ==
    { i \in 1..Len(table_arg.rows) :
        \E j \in 1..Len(table_arg.rows[i].numbers) : table_arg.rows[i].numbers[j] = r }

\* The entry claimed for roll value r.
FirstMatching(r) ==
    IF Matching(r) = {} THEN None
    ELSE Some(CHOOSE i \in Matching(r) : \A k \in Matching(r) : i <= k)

\* C9: roll_on returns the entry at the smallest row index whose numbers
\* contain the roll value it returns, and no entry exactly when no row's
\* numbers contain it; the roll value returned is the one roll produced.
C9_FirstMatchWins ==
    (Resolved /\ roll_on_ret.tag = "Ret") =>
        /\ roll_on_ret.entry = FirstMatching(roll_on_ret.roll)
        /\ roll_ret.tag = "Some" => roll_on_ret.roll = roll_ret.val

C9_Witness ==
    /\ Resolved /\ roll_on_ret.tag = "Ret" /\ roll_ret.tag = "Some"
    /\ Cardinality(Matching(roll_on_ret.roll)) >= 2
    /\ 1 \notin Matching(roll_on_ret.roll)
    /\ roll_on_ret.entry = Some(2)

\* C10: when roll returns no value for the dice string, roll_on still
\* returns: it reports roll value 0 and the first entry whose numbers
\* contain 0, or no entry when none does.
C10_FailedDiceResolveAsZero ==
    (Resolved /\ roll_ret.tag = "None") =>
        /\ roll_on_ret.tag = "Ret"
        /\ roll_on_ret.roll = W(0)
        /\ roll_on_ret.entry = FirstMatching(W(0))

C10_Witness ==
    /\ Resolved /\ roll_ret.tag = "None"
    /\ roll_on_ret.tag = "Ret" /\ roll_on_ret.roll = W(0)
    /\ 1 \notin Matching(W(0))
    /\ roll_on_ret.entry = Some(2)

(***************************************************************************)
(* Properties of the session: output, clock, loading, selection, frame.    *)
(***************************************************************************)
\* The lines a dispatch appends after its echo line.
Output == SubSeq(scrollback', Len(scrollback) + 2, Len(scrollback'))
Dispatched(variant) == Dispatching /\ cmd'[1] = variant
LastLine == scrollback[Len(scrollback)]

\* C11: a dispatch of RollDice whose dice string fails to evaluate appends
\* the line "Invalid dice notation: <dice>" and nothing else, and any line
\* "Rolled <dice>: <v>" it appends comes from an evaluation that succeeded
\* with value v (so never a made-up 0).
C11_InvalidDiceReported ==
    [][ Dispatched("RollDice") =>
          /\ roll_ret'.tag = "None" =>
                Output = << Line("Invalid dice notation: {}", <<cmd'[2]>>) >>
          /\ \A i \in 1..Len(Output) :
                Output[i].fmt = "Rolled {}: {}" =>
                  /\ roll_ret'.tag = "Some"
                  /\ Output[i].args = <<cmd'[2], roll_ret'.val>> ]_vars
C11_Witness ==
    /\ cmd = RollDice(<<"x">>)
    /\ roll_ret = RetNone
    /\ LastLine = Line("Invalid dice notation: {}", << <<"x">> >>)

\* C12: current_time_minutes never decreases, and a dispatch of Add(n)
\* leaves it equal to its previous value plus n, also when that sum does
\* not fit in 32 bits.
C12_ClockNeverDecreases ==
    [][ /\ WLe(current_time_minutes, current_time_minutes')
        /\ Dispatched("Add") =>
              current_time_minutes' = WAdd(current_time_minutes, cmd'[2]) ]_vars

\* A step of Message::WindowOpened.
Loading ==
    /\ Len(scrollback') > Len(scrollback)
    /\ scrollback'[Len(scrollback) + 1] = Text("Wayline window opened.")
LoadFailed == Loading /\ config'.found /\ ~config'.ok
Loaded == Loading /\ config'.ok

\* C13: a load whose file fails to parse leaves the table collection, the
\* active-table selection and the clock exactly as they were, also when the
\* user has selected a table with 'use' before the window-opened message.
C13_FailedLoadLeavesState ==
    [][ LoadFailed =>
          UNCHANGED <<tables, current_table, current_time_minutes>> ]_vars

\* The loaded tables whose lower-cased name is k, by position in the file.
LoadedAs(k) ==
    { i \in 1..Len(config'.tables) : RefLower(config'.tables[i].name) = k }
LastOf(s) == CHOOSE i \in s : \A j \in s : j <= i
LoadedKeys == { RefLower(config'.tables[i].name) : i \in 1..Len(config'.tables) }

\* C14: after a load that parses, every loaded table's lower-cased name is
\* a key of the collection, the table under it is the last loaded table of
\* that lower-cased name (earlier ones are gone), and the keys that were
\* not loaded keep their tables.
C14_LoadStoresLastPerKey ==
    [][ Loaded =>
          /\ DOMAIN tables' = DOMAIN tables \cup LoadedKeys
          /\ \A k \in LoadedKeys : tables'[k] = config'.tables[LastOf(LoadedAs(k))]
          /\ \A k \in DOMAIN tables \ LoadedKeys : tables'[k] = tables[k] ]_vars
C14_Witness ==
    /\ config = GoodFile(<<T_Inn, T_INN>>)
    /\ RefLower(S_inn) \in DOMAIN tables
    /\ tables[RefLower(S_inn)] = T_INN
    /\ T_Inn # T_INN

\* The dispatch reports the table name as not found and does nothing else.
NotFound(name) ==
    /\ Output = << Line("Table '{}' not found.", <<name>>) >>
    /\ roll_ret' = RetPending
    /\ roll_on_ret' = OnPending
    /\ UNCHANGED <<current_table, tables, current_time_minutes>>

\* C15: a dispatch of Use(name) or RollTable(Some(name)) with name not a key
\* of the collection appends a not-found line naming it, makes no roll and
\* leaves selection, collection and clock unchanged; a dispatch of Use(name)
\* with name a key makes name the selection.
C15_MissingTableReported ==
    [][ /\ Dispatched("Use") /\ cmd'[2] \notin DOMAIN tables => NotFound(cmd'[2])
        /\ Dispatched("RollTable") /\ cmd'[2] # None /\ cmd'[2][1] \notin DOMAIN tables
              => NotFound(cmd'[2][1])
        /\ Dispatched("Use") /\ cmd'[2] \in DOMAIN tables
              => current_table' = Some(cmd'[2]) ]_vars
C15_Witness ==
    /\ cmd = RollTable(Some(S_none))
    /\ current_table # None
    /\ LastLine = Line("Table '{}' not found.", <<S_none>>)
    /\ roll_on_ret = OnPending

\* What list shows of table t: its name, its dice expression, then one line
\* per entry, in row order.
Listing(t) ==
    << Line("Table: {}", <<t.name>>), Line("Dice: {}", <<t.roll>>) >>
    \o [i \in 1..Len(t.rows) |->
          Line("- {}: {:?}", <<t.rows[i].name, t.rows[i].numbers>>)]
\* The lines name each loaded table once.
NamesListed(lines) ==
    /\ Len(lines) = Cardinality(DOMAIN tables)
    /\ \A k \in DOMAIN tables : \E i \in 1..Len(lines) : lines[i] = Line("- {}", <<k>>)

C17_TimeHelpIgnoreTrailing ==
    /\ (Parsed /\ FirstIs(S_time)) => cmd = Time
    /\ (Parsed /\ FirstIs(S_help)) => cmd = Help
C17_Witness ==
    /\ Parsed /\ FirstIs(S_help) /\ toks[1] # S_help
    /\ Len(toks) = 3
    /\ cmd = Help

\* C18: in every reachable session state the selection is absent or a key
\* of the collection, so that Wayline::table finds the selected table.
C18_SelectionIsLoaded ==
    current_table # None =>
        /\ current_table[1] \in DOMAIN tables
        /\ table(current_table) = Some(tables[current_table[1]])
C18_Witness ==
    /\ cmd[1] = "Use"
    /\ current_table = Some(cmd[2])
    /\ Cardinality(DOMAIN tables) > 1
    /\ config = BadFile

\* The frame of a dispatch, apart from the input.
DispatchFrame ==
    /\ UNCHANGED <<tables, key_order>>
    /\ current_table' # current_table =>
          cmd'[1] = "Use" /\ cmd'[2] \in DOMAIN tables
    /\ current_time_minutes' # current_time_minutes => cmd'[1] = "Add"
    /\ cmd'[1] \in {"RollTable", "RollDice", "List", "Time", "Help", "Unknown"} =>
          UNCHANGED <<tables, current_table, current_time_minutes>>
    /\ Len(scrollback') > Len(scrollback)
    /\ SubSeq(scrollback', 1, Len(scrollback)) = scrollback
\* Every dispatch, one that panics included, keeps this frame.
C19_FrameOnly == [][ Dispatching => DispatchFrame ]_vars

\* C19: a dispatch never changes the collection, changes the selection only
\* by a successful Use and the clock only by Add, appends to the transcript
\* without altering earlier lines, and clears the input.
C19_DispatchFrame ==
    [][ Dispatching => DispatchFrame /\ input' = <<>> ]_vars

\* The line entered is '<keyword> <name>' with the name of the table under
\* key k, in some letter case.
NameEntered(keyword, k) ==
    /\ Len(toks) = 2
    /\ input = toks[1] \o <<" ">> \o toks[2]
    /\ RefLower(toks[1]) = keyword
    /\ RefLower(toks[2]) = RefLower(tables[k].name)

\* C20: for every table of the collection, entering 'use <name>' in any
\* letter case parses to Use(k), k the key the table is stored under, and
\* makes it the selection; entering 'roll <name>' parses to
\* RollTable(Some(k)) and rolls on that table.
C20_LoadedTableReachable ==
    [][ Dispatching =>
          \A k \in DOMAIN tables :
            /\ NameEntered(S_use, k) =>
                  cmd' = Use(k) /\ current_table' = Some(k)
            /\ NameEntered(S_roll, k) =>
                  cmd' = RollTable(Some(k)) /\ table_arg' = tables[k] ]_vars

====
